---- MODULE Spec2Model ----
(***************************************************************************)
(* The shared-memory dataset publisher of osrm-datastore                   *)
(* (src/src/storage/storage.cpp): Storage::Run, setupRegion and swapData,  *)
(* run by several publisher processes on one host, next to reader          *)
(* processes that consult the region register under the monitor mutex and  *)
(* attach to the data segments.                                            *)
(*                                                                         *)
(* The register (SharedRegionRegister), the monitor (SharedMonitor) and    *)
(* the segments (SharedMemory) are not part of the sources at hand; they   *)
(* are modelled from the description of their operations.                  *)
(***************************************************************************)
EXTENDS Integers, Sequences, FiniteSets, TLC

(***************************************************************************)
(* Bounds of the model: the publisher process slots, the size of the key   *)
(* pool (MAX_KEYS of the register) and the number of Run calls.  One       *)
(* reader process runs next to the publishers.                             *)
(***************************************************************************)
NumPublishers == 2
MaxRuns == 2
MaxKeys == 4

Pubs == 1..NumPublishers
Readers == {0 - 1}
NoProc == 0

Keys == 0..(MaxKeys - 1)
Datasets == {"alpha", "beta"}
Regions == {"static", "updatable"}
EXIT_SUCCESS == "EXIT_SUCCESS"
INVALID_REGION_ID == 0

(***************************************************************************)
(* Artifacts and configurations.                                           *)
(***************************************************************************)
REQUIRED == TRUE
OPTIONAL == FALSE

StaticTarFiles ==
    << <<OPTIONAL, "cells">>, <<OPTIONAL, "partition">>, <<REQUIRED, "icd">>,
       <<REQUIRED, "properties">>, <<REQUIRED, "nbg_nodes">>, <<REQUIRED, "ebg_nodes">>,
       <<REQUIRED, "tls">>, <<REQUIRED, "tld">>, <<REQUIRED, "maneuver_overrides">>,
       <<REQUIRED, "edges">>, <<REQUIRED, "names">>, <<REQUIRED, "ramIndex">> >>

UpdatableTarFiles ==
    << <<OPTIONAL, "mldgr">>, <<OPTIONAL, "cell_metrics">>, <<OPTIONAL, "hsgr">>,
       <<REQUIRED, "datasource_names">>, <<REQUIRED, "geometry">>,
       <<REQUIRED, "turn_weight_penalties">>, <<REQUIRED, "turn_duration_penalties">> >>

Artifacts ==
    {StaticTarFiles[i][2] : i \in DOMAIN StaticTarFiles}
        \cup {UpdatableTarFiles[i][2] : i \in DOMAIN UpdatableTarFiles}
        \cup {"fileIndex"}

OptionalArtifacts == {"cells", "partition", "mldgr", "cell_metrics", "hsgr"}

\* A configuration as the publisher finds it on disk: the artifacts that
\* exist, those whose archive fails its fingerprint, and the connectivity
\* checksums stored in edges, hsgr and mldgr.
CfgFull ==
    [present |-> Artifacts, corrupt |-> {}, edges |-> 1, hsgr |-> 1, mldgr |-> 1]
CfgMissingNames == [CfgFull EXCEPT !.present = Artifacts \ {"names"}]
CfgBadHsgr == [CfgFull EXCEPT !.hsgr = 2]
NoConfig == [present |-> {}, corrupt |-> {}, edges |-> 0, hsgr |-> 0, mldgr |-> 0]

Configs == {CfgFull, CfgMissingNames, CfgBadHsgr}

\* The configurations for the study of planning and populating: one artifact
\* absent, every OPTIONAL artifact absent, and all artifacts present with
\* any combination of embedded checksums.
Checksums == {0, 1}
PlanConfigs ==
    {[CfgFull EXCEPT !.present = Artifacts \ {a}] : a \in Artifacts}
        \cup {[CfgFull EXCEPT !.present = Artifacts \ OptionalArtifacts]}
        \cup {[CfgFull EXCEPT !.edges = e, !.hsgr = h, !.mldgr = m] :
                  e \in Checksums, h \in Checksums, m \in Checksums}
MaxWaits == {0 - 1, 0}

\* readBlocks: the archive is opened with its fingerprint verified, and one
\* block is set per entry that is not a ".meta" entry.  An artifact is taken
\* here to carry one block, named after it.
readBlocksThrows(cfg, path) == path \in cfg.corrupt
readBlocks(cfg, path, layout) == layout \cup {path}

\* The loop of PopulateStaticLayout / PopulateUpdatableLayout over tar_files:
\* "throw" as soon as an archive is corrupt or a REQUIRED file is missing,
\* else the layout with the blocks of every file that exists.
RECURSIVE LayoutLoop(_, _, _, _)
LayoutLoop(cfg, tar_files, i, layout) ==
    IF i > Len(tar_files) THEN [throws |-> FALSE, layout |-> layout]
    ELSE LET required == tar_files[i][1]
             path == tar_files[i][2]
         IN  IF path \in cfg.present
             THEN IF readBlocksThrows(cfg, path)
                  THEN [throws |-> TRUE, layout |-> layout]
                  ELSE LayoutLoop(cfg, tar_files, i + 1, readBlocks(cfg, path, layout))
             ELSE IF required = REQUIRED
                  THEN [throws |-> TRUE, layout |-> layout]
                  ELSE LayoutLoop(cfg, tar_files, i + 1, layout)

PopulateStaticLayout(cfg) == LayoutLoop(cfg, StaticTarFiles, 1, {"file_index_path"})
PopulateUpdatableLayout(cfg) == LayoutLoop(cfg, UpdatableTarFiles, 1, {})

\* The artifacts PopulateStaticData reads unconditionally.
StaticDataReads ==
    {"names", "tld", "tls", "ebg_nodes", "edges", "geometry", "datasource_names",
     "nbg_nodes", "turn_weight_penalties", "turn_duration_penalties", "ramIndex",
     "properties", "icd", "maneuver_overrides"}

\* The comparison of an embedded graph checksum with the one read from edges.
ChecksumMismatch(turns_connectivity_checksum, graph_connectivity_checksum) ==
    turns_connectivity_checksum # graph_connectivity_checksum

\* The checksum tests of PopulateStaticData: turns_connectivity_checksum
\* holds what readTurnData read from edges.
PopulateStaticDataChecksumThrows(cfg) ==
    LET turns_connectivity_checksum == cfg.edges IN
    \/ "hsgr" \in cfg.present /\ ChecksumMismatch(turns_connectivity_checksum, cfg.hsgr)
    \/ "mldgr" \in cfg.present /\ ChecksumMismatch(turns_connectivity_checksum, cfg.mldgr)

\* PopulateStaticData throws when an artifact it reads cannot be read, or when
\* hsgr or mldgr exists and its checksum differs from the one read from edges.
PopulateStaticDataThrows(cfg) ==
    \/ \E f \in StaticDataReads : f \notin cfg.present \/ f \in cfg.corrupt
    \/ PopulateStaticDataChecksumThrows(cfg)

\* The artifacts PopulateUpdatableData reads unconditionally.
UpdatableDataReads ==
    {"geometry", "datasource_names", "turn_weight_penalties", "turn_duration_penalties",
     "properties"}

\* The checksum tests of PopulateUpdatableData: turns_connectivity_checksum
\* is initialised to 0 and the routine never reads edges.
PopulateUpdatableDataChecksumThrows(cfg) ==
    LET turns_connectivity_checksum == 0 IN
    \/ "hsgr" \in cfg.present /\ ChecksumMismatch(turns_connectivity_checksum, cfg.hsgr)
    \/ "mldgr" \in cfg.present /\ ChecksumMismatch(turns_connectivity_checksum, cfg.mldgr)

PopulateUpdatableDataThrows(cfg) ==
    \/ \E f \in UpdatableDataReads : f \notin cfg.present \/ f \in cfg.corrupt
    \/ PopulateUpdatableDataChecksumThrows(cfg)

(***************************************************************************)
(* State.                                                                  *)
(***************************************************************************)
VARIABLES
    file_lock,      \* owner of the writer file lock osrm-datastore.lock
    mutex,          \* owner of the monitor mutex
    monitor,        \* TRUE once the control segment has been created
    in_use,         \* register: the keys reserved (shm_key_in_use)
    regions,        \* register: the entries, in registration order
    seg,            \* the data segments, one per (Run call, region)
    pc,             \* publisher: position in Storage::Run / swapData
    rid,            \* publisher: the number of its Run call, naming its segments
    max_wait,       \* publisher: argument of Run
    dataset_name,   \* publisher: argument of Run
    config,         \* publisher: the Storage object's configuration
    handles,        \* publisher: region -> shm_key of the handle it holds
    cursor,         \* publisher: index of the loop over handles / old_handles
    old_handles,    \* publisher: the segments replaced by its swap
    swap_ret,       \* publisher: what swapData returned
    result,         \* publisher: how Run ended
    notified,       \* publisher: the number of notify_all calls it made
    pre,            \* history: register and segments when the file lock was taken,
                    \*          kept until the outcome of the call is handed over
    rpc,            \* reader: position
    rname,          \* reader: the entry it looks up
    snap,           \* reader: the (shm_key, timestamp) it read
    rseg,           \* reader: the segment it is attached to
    snap_seg,       \* history: the segment the register pointed at when the
                    \*          reader read the key
    runs,           \* history: the number of Run calls so far
    published,      \* history: dataset -> the number of publishes that returned success
    abandoned,      \* history: the keys held by a publisher that died between
                    \*          setupRegion and the monitor mutex
    impl,           \* cache: the version of UnpackingCache the object is built from
    m_cache,        \* cache: the LRU entries, most recently used first
    m_shared_access,\* cache: the shared mutex: its exclusive owner and shared owners
    m_edge,         \* cache: the member the generation version looks up with
    m_new_gen,      \* cache: the generation a newer timestamp is mapped to
    tpc,            \* thread: position in a cache operation
    call,           \* thread: the operation in progress and its arguments
    cache_ret,      \* thread: the operation it completed last and what it returned
    calls,          \* history: the number of cache operations called so far
    added,          \* history: the (edge, duration) pairs AddEdge has inserted with
    entries,        \* readBlocks: the entry names reader.List produced
    entry,          \* readBlocks: the number of entries the loop has been through
    set_blocks      \* readBlocks: the names SetBlock was called with, in order

sharedvars == <<file_lock, mutex, monitor, in_use, regions, seg>>
pubvars == <<pc, rid, max_wait, dataset_name, config, handles, cursor, old_handles,
             swap_ret, result, notified, pre>>
readervars == <<rpc, rname, snap, rseg, snap_seg>>
histvars == <<runs, published, abandoned>>
cachevars == <<impl, m_cache, m_shared_access, m_edge, m_new_gen, tpc, call, cache_ret,
               calls, added>>
storagevars == <<sharedvars, pubvars, readervars, histvars>>
tarvars == <<entries, entry, set_blocks>>
vars == <<storagevars, cachevars, tarvars>>

(***************************************************************************)
(* The region register (SharedRegionRegister).                             *)
(***************************************************************************)
RegionNames == Datasets \X Regions

\* The keys not marked in use.
FreeKeys(used) == Keys \ used

\* ReserveKey: an unused key, the first one the scan of the in-use marks
\* meets.  It fails (KeysExhausted) when FreeKeys is empty.
ReserveKey(used) == CHOOSE k \in FreeKeys(used) : \A j \in FreeKeys(used) : k <= j

ReleaseKey(used, key) == used \ {key}

\* Find: the index of the entry called name, or INVALID_REGION_ID.
Find(regs, name) ==
    IF \E i \in DOMAIN regs : regs[i].name = name
    THEN CHOOSE i \in DOMAIN regs : regs[i].name = name
    ELSE INVALID_REGION_ID

\* Register: a new entry, its version counter at its initial value.
INITIAL_TIMESTAMP == 0
Register(regs, name, key) ==
    Append(regs, [name |-> name, shm_key |-> key, timestamp |-> INITIAL_TIMESTAMP])

RegisteredKeys == {regions[i].shm_key : i \in DOMAIN regions}

(***************************************************************************)
(* The data segments (SharedMemory).  A segment is identified by the Run   *)
(* call and region that created it; its key names it only while it is      *)
(* live.  Remove marks it; it is destroyed when the last process has    *)
(* detached.                                                               *)
(***************************************************************************)
SegIds == (1..MaxRuns) \X Regions
NoSegId == <<0, "none">>
NoSeg == [key |-> 0, state |-> "none", att |-> {}, layout |-> {}, data |-> "none"]

LiveAt(sg, key) == {s \in SegIds : sg[s].state = "live" /\ sg[s].key = key}
RegionExists(sg, key) == LiveAt(sg, key) # {}
ExistingSegs(sg) == {s \in SegIds : sg[s].state # "none"}

\* A marked segment without attached processes is gone.
Reap(sg) ==
    [s \in SegIds |-> IF sg[s].state = "marked" /\ sg[s].att = {} THEN NoSeg ELSE sg[s]]

\* SharedMemory::Remove(key): mark the live segment at key for destruction.
Remove(sg, key) ==
    Reap([s \in SegIds |->
            IF s \in LiveAt(sg, key) THEN [sg[s] EXCEPT !.state = "marked"] ELSE sg[s]])

\* makeSharedMemory(key): attach to the live segment at key.
Attach(sg, key, proc) ==
    [s \in SegIds |->
        IF s \in LiveAt(sg, key) THEN [sg[s] EXCEPT !.att = @ \cup {proc}] ELSE sg[s]]

\* The end of a process' attachments (its SharedMemory objects are destroyed).
DetachAll(sg, proc) ==
    Reap([s \in SegIds |-> [sg[s] EXCEPT !.att = @ \ {proc}]])

\* WaitForDetach returns once only the waiting process is attached.
Detached(sg, s, proc) == sg[s].att \subseteq {proc}

(***************************************************************************)
(* Locks.                                                                  *)
(***************************************************************************)
\* Variant: the lock is granted whoever holds it.
try_lock_unchecked(owner) == TRUE

\* file_lock: try_lock / lock succeed only while no process holds the lock.
try_lock(owner) == owner = NoProc

\* The monitor mutex can be taken only while no process holds it.
MutexFree(owner) == owner = NoProc

(***************************************************************************)
(* The unpacking cache (UnpackingCache), in the reader process: the version *)
(* of include/engine/unpacking_cache.hpp that looks up with a hashed key,  *)
(* and the version that looks up with (source, target, exclude,            *)
(* generation).  The LRU container (lru_cache) is not part of the sources  *)
(* at hand.                                                                *)
(***************************************************************************)
Threads == {1, 2}
NoThread == 0
MaxCalls == 3
CacheSize == 2

Impls == {"hashed", "generation"}

\* Edges (source, target, exclude class, timestamp) that differ from the
\* first one in one component each, and the durations stored with them.
CacheEdges == {<<1, 2, 0, 7>>, <<1, 2, 0, 8>>, <<1, 2, 1, 7>>, <<2, 1, 0, 7>>}
Durations == {10, 20}
MAXIMAL_EDGE_DURATION == 2147483647
NoEdge == <<0, 0, 0, 0>>

\* std::size_t, 64 bits wide, as four 16-bit limbs, the least significant
\* first.
LimbBase == 65536
Limbs == 1..4
Size(n) == [i \in Limbs |-> IF i = 1 THEN n ELSE 0]

RECURSIVE XorLimb(_, _)
XorLimb(a, b) ==
    IF a = 0 /\ b = 0 THEN 0
    ELSE (((a % 2) + (b % 2)) % 2) + (2 * XorLimb(a \div 2, b \div 2))

Xor(x, y) == [i \in Limbs |-> XorLimb(x[i], y[i])]

\* x + y modulo 2^64.
RECURSIVE CarryInto(_, _, _)
CarryInto(x, y, i) ==
    IF i = 1 THEN 0 ELSE (x[i - 1] + y[i - 1] + CarryInto(x, y, i - 1)) \div LimbBase

Add(x, y) == [i \in Limbs |-> (x[i] + y[i] + CarryInto(x, y, i)) % LimbBase]

\* x << 6 modulo 2^64, and x >> 2.
ShiftLeft6(x) ==
    [i \in Limbs |-> ((x[i] * 64) % LimbBase) + (IF i = 1 THEN 0 ELSE x[i - 1] \div 1024)]
ShiftRight2(x) ==
    [i \in Limbs |-> (x[i] \div 4) + (IF i = 4 THEN 0 ELSE (x[i + 1] % 4) * 16384)]

\* boost::hash_combine: seed ^= h + 0x9e3779b9 + (seed << 6) + (seed >> 2).
GoldenRatio == [i \in Limbs |-> IF i = 1 THEN 31161 ELSE IF i = 2 THEN 40503 ELSE 0]
hash_combine(seed, h) ==
    Xor(seed, Add(Add(Add(h, GoldenRatio), ShiftLeft6(seed)), ShiftRight2(seed)))

\* HashKey: std::hash of an unsigned integer is the integer; the four
\* components are combined in order into a seed of 0.
HashKey(key) ==
    hash_combine(hash_combine(hash_combine(hash_combine(Size(0), Size(key[1])),
                                           Size(key[2])), Size(key[3])), Size(key[4]))

HashedKeyOf == [key \in CacheEdges |-> HashKey(key)]

\* The generation version: m_current_gen, m_old_gen and m_current_time keep
\* the values of their initialisers; the fourth component of the key looked
\* up is m_current_gen, or new_gen when the timestamp of the edge is
\* greater than m_current_time.
m_current_gen == 1
m_old_gen == 2
m_current_time == 0
Generations == {m_current_gen, m_old_gen}
GenerationKey(edge, new_gen) ==
    <<edge[1], edge[2], edge[3],
      IF edge[4] > m_current_time THEN new_gen ELSE m_current_gen>>

\* lru_cache: contains, get (a hit becomes the most recently used entry)
\* and insert (a key that is new; the least recently used entry goes when
\* the cache is full).
NoValue == 0 - 1
lru_index(c, k) ==
    IF \E i \in DOMAIN c : c[i].key = k THEN CHOOSE i \in DOMAIN c : c[i].key = k ELSE 0
lru_contains(c, k) == lru_index(c, k) # 0
lru_value(c, k) == IF lru_contains(c, k) THEN c[lru_index(c, k)].value ELSE NoValue
lru_get(c, k) ==
    IF lru_contains(c, k)
    THEN <<c[lru_index(c, k)]>> \o SelectSeq(c, LAMBDA e : e.key # k)
    ELSE c
lru_insert(c, k, v) ==
    IF lru_contains(c, k) THEN c
    ELSE <<[key |-> k, value |-> v]>>
             \o (IF Len(c) >= CacheSize THEN SubSeq(c, 1, CacheSize - 1) ELSE c)

\* boost::shared_mutex.
Unlocked == [exclusive |-> NoThread, shared |-> {}]
NoCall == [op |-> "none", edge |-> NoEdge, duration |-> 0]
NoRet == [op |-> "none", edge |-> NoEdge, value |-> 0]

\* The cache object after construction, no thread in an operation.
CacheStart ==
    /\ m_cache = <<>>
    /\ m_shared_access = Unlocked
    /\ m_edge = NoEdge
    /\ tpc = [t \in Threads |-> "idle"]
    /\ call = [t \in Threads |-> NoCall]
    /\ cache_ret = [t \in Threads |-> NoRet]
    /\ calls = 0
    /\ added = {}

(***************************************************************************)
(* readBlocks over the entries of one archive.  A name is the sequence of  *)
(* its characters.                                                         *)
(***************************************************************************)
MaxEntries == 2

Meta == <<".", "m", "e", "t", "a">>

\* Entry names: nothing or a stem, then nothing, ".meta" or ".met", then
\* nothing, a further character or ".meta".
NameHeads == {<<>>, <<"a">>}
NameMiddles == {<<>>, Meta, <<".", "m", "e", "t">>}
NameTails == {<<>>, <<"b">>, Meta}
EntryNames ==
    {h \o m \o e : h \in NameHeads, m \in NameMiddles, e \in NameTails} \ {<<>>}
EntryLists == UNION {[1..n -> EntryNames] : n \in 0..MaxEntries}

\* std::string::npos, and std::string::rfind(str): the last position
\* (counted from 0) at which str occurs in s, or npos.
npos == 0 - 1
Occurs(s, str, pos) ==
    /\ pos + Len(str) <= Len(s)
    /\ SubSeq(s, pos + 1, pos + Len(str)) = str
rfind(s, str) ==
    IF \E pos \in 0..Len(s) : Occurs(s, str, pos)
    THEN CHOOSE pos \in 0..Len(s) :
             /\ Occurs(s, str, pos)
             /\ \A q \in 0..Len(s) : Occurs(s, str, q) => q <= pos
    ELSE npos

\* No archive is being read.
TarIdle ==
    /\ entries = <<>>
    /\ entry = 0
    /\ set_blocks = <<>>

(***************************************************************************)
(* Initial state: no publisher has run since boot.                         *)
(***************************************************************************)
NoPre == [regions |-> <<>>, in_use |-> {}, segs |-> {}]
NoHandles == <<>>
NoSnap == [shm_key |-> 0, timestamp |-> 0]

StorageInit ==
    /\ file_lock = NoProc
    /\ mutex = NoProc
    /\ monitor = FALSE
    /\ in_use = {}
    /\ regions = <<>>
    /\ seg = [s \in SegIds |-> NoSeg]
    /\ pc = [p \in Pubs |-> "idle"]
    /\ rid = [p \in Pubs |-> 0]
    /\ max_wait = [p \in Pubs |-> 0]
    /\ dataset_name = [p \in Pubs |-> "none"]
    /\ config = [p \in Pubs |-> NoConfig]
    /\ handles = [p \in Pubs |-> NoHandles]
    /\ cursor = [p \in Pubs |-> 0]
    /\ old_handles = [p \in Pubs |-> <<>>]
    /\ swap_ret = [p \in Pubs |-> "none"]
    /\ result = [p \in Pubs |-> "none"]
    /\ notified = [p \in Pubs |-> 0]
    /\ pre = [p \in Pubs |-> NoPre]
    /\ rpc = [r \in Readers |-> "idle"]
    /\ rname = [r \in Readers |-> <<"none", "none">>]
    /\ snap = [r \in Readers |-> NoSnap]
    /\ snap_seg = [r \in Readers |-> NoSegId]
    /\ rseg = [r \in Readers |-> NoSegId]
    /\ runs = 0
    /\ published = [d \in Datasets |-> 0]
    /\ abandoned = {}

Init ==
    /\ StorageInit
    /\ impl = "hashed"
    /\ m_new_gen = m_old_gen
    /\ CacheStart
    /\ TarIdle

(***************************************************************************)
(* Storage::Run.                                                           *)
(***************************************************************************)
\* The register and the segments as the publisher finds them.
Snapshot == [regions |-> regions, in_use |-> in_use, segs |-> ExistingSegs(seg)]

\* The positions between the first setupRegion and the monitor mutex.
BeforeMutex ==
    {"static_data", "updatable_layout", "updatable_setup", "updatable_data", "swap_lock"}

\* Run ends, by return, by an exception or because the process dies: its
\* SharedMemory objects go (sg is the segment table it leaves), the file
\* lock is released, and the caller is left with the outcome.
Unwind(p, sg, ret, res) ==
    /\ seg' = DetachAll(sg, p)
    /\ file_lock' = IF file_lock = p THEN NoProc ELSE file_lock
    /\ pc' = [pc EXCEPT ![p] = IF res = "crashed" THEN "idle" ELSE "done"]
    /\ swap_ret' = [swap_ret EXCEPT ![p] = IF res = "crashed" THEN "none" ELSE ret]
    /\ result' = [result EXCEPT ![p] = IF res = "crashed" THEN "none" ELSE res]
    /\ max_wait' = [max_wait EXCEPT ![p] = 0]
    /\ config' = [config EXCEPT ![p] = NoConfig]
    /\ handles' = [handles EXCEPT ![p] = NoHandles]
    /\ cursor' = [cursor EXCEPT ![p] = 0]
    /\ old_handles' = [old_handles EXCEPT ![p] = <<>>]
    /\ pre' = [pre EXCEPT ![p] = IF res = "crashed" THEN NoPre ELSE @]
    /\ rid' = [rid EXCEPT ![p] = 0]
    /\ runs' = runs
    /\ published' =
          IF ret = "true" /\ res = EXIT_SUCCESS
          THEN [published EXCEPT ![dataset_name[p]] = @ + 1]
          ELSE published
    /\ abandoned' =
          IF res = "crashed" /\ pc[p] \in BeforeMutex
          THEN abandoned \cup {handles[p][r] : r \in DOMAIN handles[p]}
          ELSE abandoned
    /\ dataset_name' = [dataset_name EXCEPT ![p] = "none"]
    /\ notified' = [notified EXCEPT ![p] = 0]
    /\ UNCHANGED <<monitor, readervars, cachevars, tarvars>>

\* An exception leaves Run: nothing is caught on the way.
Throw(p, sg) ==
    /\ Unwind(p, sg, swap_ret[p], "exception")
    /\ UNCHANGED <<mutex, in_use, regions>>

\* Process slots are interchangeable: the idle slot with the least number
\* starts the next process, and a finished process has handed over its
\* outcome (Exit) before another one gets going.
Startable(p) ==
    /\ \A q \in Pubs : q < p => pc[q] # "idle"
    /\ \A q \in Pubs : pc[q] # "done"

\* Run is called; datastore_lock.try_lock() is tried first.
Run(p) ==
    /\ pc[p] = "idle"
    /\ runs < MaxRuns
    /\ Startable(p)
    /\ runs' = runs + 1
    /\ rid' = [rid EXCEPT ![p] = runs + 1]
    /\ notified' = [notified EXCEPT ![p] = 0]
    /\ \E mw \in MaxWaits, d \in Datasets :
        /\ max_wait' = [max_wait EXCEPT ![p] = mw]
        /\ dataset_name' = [dataset_name EXCEPT ![p] = d]
    /\ IF try_lock(file_lock)
       THEN /\ file_lock' = p
            /\ pc' = [pc EXCEPT ![p] = "locked"]
            /\ pre' = [pre EXCEPT ![p] = Snapshot]
       ELSE /\ pc' = [pc EXCEPT ![p] = "wait_lock"]
            /\ UNCHANGED <<file_lock, pre>>
    /\ UNCHANGED <<mutex, monitor, in_use, regions, seg, config, handles, cursor,
                   old_handles, swap_ret, result, published, abandoned, readervars, cachevars, tarvars>>

\* datastore_lock.lock(): blocks until the lock is free.
LockWait(p) ==
    /\ pc[p] = "wait_lock"
    /\ \A q \in Pubs : pc[q] # "done"
    /\ try_lock(file_lock)
    /\ file_lock' = p
    /\ pc' = [pc EXCEPT ![p] = "locked"]
    /\ pre' = [pre EXCEPT ![p] = Snapshot]
    /\ UNCHANGED <<mutex, monitor, in_use, regions, seg, max_wait, dataset_name, config,
                   handles, cursor, old_handles, swap_ret, result, notified, rid, histvars, readervars, cachevars, tarvars>>

\* Monitor monitor(SharedRegionRegister{}): create or attach the control
\* segment.  From here on the publisher works on the files as they are on
\* disk at this moment.
AttachMonitorWith(p, cfgs) ==
    /\ pc[p] = "locked"
    /\ monitor' = TRUE
    /\ \E cfg \in cfgs : config' = [config EXCEPT ![p] = cfg]
    /\ pc' = [pc EXCEPT ![p] = "static_layout"]
    /\ UNCHANGED <<file_lock, mutex, in_use, regions, seg, max_wait, dataset_name,
                   handles, cursor, old_handles, swap_ret, result, notified, pre,
                   rid, histvars, readervars, cachevars, tarvars>>

AttachMonitor(p) == AttachMonitorWith(p, Configs)

PcLayout == [static |-> "static_layout", updatable |-> "updatable_layout"]
PcSetup == [static |-> "static_setup", updatable |-> "updatable_setup"]
PcData == [static |-> "static_data", updatable |-> "updatable_data"]
PcAfter == [static |-> "updatable_layout", updatable |-> "swap_lock"]

\* The layout Run plans for a region: PopulateStaticLayout for both.
PlanLayout(cfg, r) == PopulateStaticLayout(cfg)

\* PopulateStaticLayout(static_layout) / PopulateStaticLayout(updatable_layout).
Layout(p, r) ==
    /\ pc[p] = PcLayout[r]
    /\ IF PlanLayout(config[p], r).throws
       THEN Throw(p, seg)
       ELSE /\ pc' = [pc EXCEPT ![p] = PcSetup[r]]
            /\ UNCHANGED <<sharedvars, max_wait, dataset_name, config, handles, cursor,
                           old_handles, swap_ret, result, notified, pre, rid, histvars, readervars, cachevars, tarvars>>

\* The segment setupRegion creates at key for layout, header copied in.
NewSegment(key, proc, layout) ==
    [key |-> key, state |-> "live", att |-> {proc}, layout |-> layout, data |-> "header"]

\* setupRegion: reserve a key, remove a segment left at it, allocate the
\* segment and copy the encoded layout to its start.
setupRegion(p, r) ==
    /\ pc[p] = PcSetup[r]
    /\ IF FreeKeys(in_use) = {}
       THEN Throw(p, seg)
       ELSE LET shm_key == ReserveKey(in_use) IN
            /\ in_use' = in_use \cup {shm_key}
            /\ seg' = [(IF RegionExists(seg, shm_key) THEN Remove(seg, shm_key) ELSE seg)
                          EXCEPT ![<<rid[p], r>>] =
                              NewSegment(shm_key, p, PlanLayout(config[p], r).layout)]
            /\ handles' = [handles EXCEPT ![p] = (r :> shm_key) @@ @]
            /\ pc' = [pc EXCEPT ![p] = PcData[r]]
            /\ UNCHANGED <<file_lock, mutex, monitor, regions, max_wait, dataset_name,
                           config, cursor, old_handles, swap_ret, result, notified, pre,
                           rid, histvars, readervars, cachevars, tarvars>>

\* The routine Run calls to fill a region: PopulateStaticData for both.
PopulateThrows(cfg, r) == PopulateStaticDataThrows(cfg)

\* Variant: the region registered under the name is filled in place.
PopulateTargetRegistered(p, r) ==
    LET region_id == Find(regions, <<dataset_name[p], r>>) IN
    IF region_id # INVALID_REGION_ID /\ RegionExists(seg, regions[region_id].shm_key)
    THEN CHOOSE s \in LiveAt(seg, regions[region_id].shm_key) : TRUE
    ELSE <<rid[p], r>>

\* The segment a populate routine writes through data_ptr: the handle's own.
PopulateTarget(p, r) == <<rid[p], r>>

\* PopulateStaticData(layout, handle.data_ptr): the blocks are written into
\* the segment; a throw leaves it partly written.
PopulateData(p, r) ==
    /\ pc[p] = PcData[r]
    /\ IF PopulateThrows(config[p], r)
       THEN Throw(p, [seg EXCEPT ![PopulateTarget(p, r)].data = "partial"])
       ELSE /\ seg' = [seg EXCEPT ![PopulateTarget(p, r)].data = "populated"]
            /\ pc' = [pc EXCEPT ![p] = PcAfter[r]]
            /\ UNCHANGED <<file_lock, mutex, monitor, in_use, regions, max_wait,
                           dataset_name, config, handles, cursor, old_handles, swap_ret,
                           result, notified, pre, rid, histvars, readervars, cachevars, tarvars>>

(***************************************************************************)
(* swapData.                                                               *)
(***************************************************************************)
\* The handles map of Run, in the order std::map iterates it.
HandleOrder == <<"static", "updatable">>
HandleName(p, i) == <<dataset_name[p], HandleOrder[i]>>

\* Variant: the static handle is put under both names.
NewKeyStatic(p, i) == handles[p]["static"]

\* pair.second.shm_key of the i-th pair: Run put each region's own handle
\* under its name.
NewKey(p, i) == handles[p][HandleOrder[i]]

\* The position after the body of the loop over handles has run for one pair.
NextHandle(p) ==
    IF cursor[p] < Len(HandleOrder)
    THEN /\ cursor' = [cursor EXCEPT ![p] = @ + 1]
         /\ pc' = [pc EXCEPT ![p] = "swap_find"]
    ELSE /\ cursor' = [cursor EXCEPT ![p] = 0]
         /\ pc' = [pc EXCEPT ![p] = "swap_unlock"]

\* Variant: the loop over handles is entered without the mutex.
SwapLockUnlocked(p) ==
    /\ pc[p] = "swap_lock"
    /\ pc' = [pc EXCEPT ![p] = "swap_find"]
    /\ cursor' = [cursor EXCEPT ![p] = 1]
    /\ UNCHANGED <<sharedvars, max_wait, dataset_name, config, handles, old_handles,
                   swap_ret, result, notified, pre, rid, histvars, readervars, cachevars, tarvars>>

\* lock.timed_lock(...) succeeds, or lock.lock() returns: the mutex is taken.
SwapLock(p) ==
    /\ pc[p] = "swap_lock"
    /\ MutexFree(mutex)
    /\ mutex' = p
    /\ pc' = [pc EXCEPT ![p] = "swap_find"]
    /\ cursor' = [cursor EXCEPT ![p] = 1]
    /\ UNCHANGED <<file_lock, monitor, in_use, regions, seg, max_wait, dataset_name,
                   config, handles, old_handles, swap_ret, result, notified, pre,
                   rid, histvars, readervars, cachevars, tarvars>>

\* Variant: the lock is tried with a deadline whatever max_wait is.
TimedLockAlways(mw) == TRUE

\* if (max_wait >= 0): the lock is tried with a deadline; else lock.lock().
TimedLock(mw) == mw >= 0

\* What Run returns after swapData has returned ret.
RunResult(ret) == EXIT_SUCCESS

\* The segment table after Remove has been called for every key in ks.
RECURSIVE RemoveAll(_, _)
RemoveAll(sg, ks) ==
    IF ks = {} THEN sg
    ELSE LET k == CHOOSE x \in ks : TRUE IN RemoveAll(Remove(sg, k), ks \ {k})

\* What swapData does with the new handles when timed_lock fails.
TimeoutCleanup(p) ==
    [sg |-> RemoveAll(seg, {handles[p][r] : r \in DOMAIN handles[p]}), used |-> in_use]

\* Variant: the first pair is entered in the register before the lock is tried.
SwapTimeoutRegistered(p) ==
    /\ pc[p] = "swap_lock"
    /\ TimedLock(max_wait[p])
    /\ ~MutexFree(mutex)
    /\ in_use' = TimeoutCleanup(p).used
    /\ Unwind(p, TimeoutCleanup(p).sg, "false", RunResult("false"))
    /\ regions' = Register(regions, HandleName(p, 1), NewKey(p, 1))
    /\ UNCHANGED mutex

\* timed_lock returns false: the mutex stayed with another process until the
\* deadline.  The new segments are removed, swapData returns false and Run
\* returns.
SwapTimeout(p) ==
    /\ pc[p] = "swap_lock"
    /\ TimedLock(max_wait[p])
    /\ ~MutexFree(mutex)
    /\ in_use' = TimeoutCleanup(p).used
    /\ Unwind(p, TimeoutCleanup(p).sg, "false", RunResult("false"))
    /\ UNCHANGED <<mutex, regions>>

\* Find, then Register for a new name; else the old region is attached and
\* pushed on old_handles.
SwapFind(p) ==
    /\ pc[p] = "swap_find"
    /\ LET name == HandleName(p, cursor[p])
           new_key == NewKey(p, cursor[p])
           region_id == Find(regions, name)
       IN  IF region_id = INVALID_REGION_ID
           THEN /\ regions' = Register(regions, name, new_key)
                /\ NextHandle(p)
                /\ UNCHANGED <<mutex, seg, old_handles, file_lock, max_wait, config,
                               handles, swap_ret, result, pre, monitor, dataset_name,
                               notified, rid, histvars>>
           ELSE LET old_key == regions[region_id].shm_key IN
                IF RegionExists(seg, old_key)
                THEN /\ seg' = Attach(seg, old_key, p)
                     /\ old_handles' = [old_handles EXCEPT ![p] =
                            Append(@, CHOOSE s \in LiveAt(seg, old_key) : TRUE)]
                     /\ pc' = [pc EXCEPT ![p] = "swap_key"]
                     /\ UNCHANGED <<mutex, regions, cursor, file_lock, max_wait, config,
                                    handles, swap_ret, result, pre, monitor, dataset_name,
                                    notified, rid, histvars>>
                ELSE \* makeSharedMemory throws; the scoped lock lets go of the mutex
                     /\ mutex' = NoProc
                     /\ Unwind(p, seg, swap_ret[p], "exception")
                     /\ UNCHANGED regions
    /\ UNCHANGED <<in_use, readervars, cachevars, tarvars>>

\* makeSharedMemory(shared_region.shm_key) throws although the segment
\* exists: the system refuses the attachment (no room left to map it).  The
\* exception leaves swapData and Run; the scoped lock lets go of the mutex.
SwapAttachFails(p) ==
    /\ pc[p] = "swap_find"
    /\ Find(regions, HandleName(p, cursor[p])) # INVALID_REGION_ID
    /\ mutex' = NoProc
    /\ Unwind(p, seg, swap_ret[p], "exception")
    /\ UNCHANGED <<in_use, regions>>

\* shared_region.shm_key = pair.second.shm_key
SwapKey(p) ==
    /\ pc[p] = "swap_key"
    /\ LET region_id == Find(regions, HandleName(p, cursor[p])) IN
       regions' = [regions EXCEPT ![region_id].shm_key = NewKey(p, cursor[p])]
    /\ pc' = [pc EXCEPT ![p] = "swap_ts"]
    /\ UNCHANGED <<file_lock, mutex, monitor, in_use, seg, max_wait, dataset_name,
                   config, handles, cursor, old_handles, swap_ret, result, notified, pre,
                   rid, histvars, readervars, cachevars, tarvars>>

\* Variant: the version counter is left as it is.
BumpNot(timestamp) == timestamp

\* shared_region.timestamp++
Bump(timestamp) == timestamp + 1

SwapTimestamp(p) ==
    /\ pc[p] = "swap_ts"
    /\ LET region_id == Find(regions, HandleName(p, cursor[p])) IN
       regions' = [regions EXCEPT ![region_id].timestamp = Bump(@)]
    /\ NextHandle(p)
    /\ UNCHANGED <<file_lock, mutex, monitor, in_use, seg, max_wait, dataset_name,
                   config, handles, old_handles, swap_ret, result, notified, pre,
                   rid, histvars, readervars, cachevars, tarvars>>

\* Variant: the scope of the lock ends and the loop over old_handles follows
\* at once, without notify_all.
SwapUnlockUnnotified(p) ==
    /\ pc[p] = "swap_unlock"
    /\ mutex' = NoProc
    /\ cursor' = [cursor EXCEPT ![p] = 1]
    /\ pc' = [pc EXCEPT ![p] = IF old_handles[p] # <<>> THEN "retire_remove"
                                                        ELSE "swap_return"]
    /\ UNCHANGED <<file_lock, monitor, in_use, regions, seg, max_wait, dataset_name,
                   config, handles, old_handles, swap_ret, result, notified, pre,
                   rid, histvars, readervars, cachevars, tarvars>>

\* The scope of the lock ends.
SwapUnlock(p) ==
    /\ pc[p] = "swap_unlock"
    /\ mutex' = NoProc
    /\ pc' = [pc EXCEPT ![p] = "notify"]
    /\ UNCHANGED <<file_lock, monitor, in_use, regions, seg, max_wait, dataset_name,
                   config, handles, cursor, old_handles, swap_ret, result, notified, pre,
                   rid, histvars, readervars, cachevars, tarvars>>

\* The position at the head of the loop over old_handles.
RetireHead(p, i) == IF i <= Len(old_handles[p]) THEN "retire_remove" ELSE "swap_return"

\* monitor.notify_all()
NotifyAll(p) ==
    /\ pc[p] = "notify"
    /\ notified' = [notified EXCEPT ![p] = @ + 1]
    /\ cursor' = [cursor EXCEPT ![p] = 1]
    /\ pc' = [pc EXCEPT ![p] = RetireHead(p, 1)]
    /\ UNCHANGED <<sharedvars, max_wait, dataset_name, config, handles, old_handles,
                   swap_ret, result, pre, rid, histvars, readervars, cachevars, tarvars>>

\* Variant: Remove is applied to the key the entry holds now.
RetireRemoveRegistered(p) ==
    /\ pc[p] = "retire_remove"
    /\ seg' = Remove(seg, regions[Find(regions,
                   <<dataset_name[p], old_handles[p][cursor[p]][2]>>)].shm_key)
    /\ pc' = [pc EXCEPT ![p] = "retire_wait"]
    /\ UNCHANGED <<file_lock, mutex, monitor, in_use, regions, max_wait, dataset_name,
                   config, handles, cursor, old_handles, swap_ret, result, notified, pre,
                   rid, histvars, readervars, cachevars, tarvars>>

\* storage::SharedMemory::Remove(old_handle.shm_key)
RetireRemove(p) ==
    /\ pc[p] = "retire_remove"
    /\ seg' = Remove(seg, seg[old_handles[p][cursor[p]]].key)
    /\ pc' = [pc EXCEPT ![p] = "retire_wait"]
    /\ UNCHANGED <<file_lock, mutex, monitor, in_use, regions, max_wait, dataset_name,
                   config, handles, cursor, old_handles, swap_ret, result, notified, pre,
                   rid, histvars, readervars, cachevars, tarvars>>

\* Variant: the wait returns at once.
WaitDoneAtOnce(p, s) == TRUE

\* Variant: the wait is for an attach count of zero.
WaitDoneNoneAttached(p, s) == seg[s].att = {}

\* What WaitForDetach waits for on old segment s.
WaitDone(p, s) == Detached(seg, s, p)

\* old_handle.memory->WaitForDetach()
RetireWait(p) ==
    /\ pc[p] = "retire_wait"
    /\ WaitDone(p, old_handles[p][cursor[p]])
    /\ pc' = [pc EXCEPT ![p] = "retire_release"]
    /\ UNCHANGED <<sharedvars, max_wait, dataset_name, config, handles, cursor,
                   old_handles, swap_ret, result, notified, pre, rid, histvars, readervars, cachevars, tarvars>>

\* Variant: the loop over old_handles goes on without ReleaseKey.
RetireReleaseSkipped(p) ==
    /\ pc[p] = "retire_release"
    /\ cursor' = [cursor EXCEPT ![p] = @ + 1]
    /\ pc' = [pc EXCEPT ![p] = RetireHead(p, cursor[p] + 1)]
    /\ UNCHANGED <<sharedvars, max_wait, dataset_name, config, handles, old_handles,
                   swap_ret, result, notified, pre, rid, histvars, readervars, cachevars, tarvars>>

\* shared_register.ReleaseKey(old_handle.shm_key)
RetireRelease(p) ==
    /\ pc[p] = "retire_release"
    /\ in_use' = ReleaseKey(in_use, seg[old_handles[p][cursor[p]]].key)
    /\ cursor' = [cursor EXCEPT ![p] = @ + 1]
    /\ pc' = [pc EXCEPT ![p] = RetireHead(p, cursor[p] + 1)]
    /\ UNCHANGED <<file_lock, mutex, monitor, regions, seg, max_wait, dataset_name,
                   config, handles, old_handles, swap_ret, result, notified, pre,
                   rid, histvars, readervars, cachevars, tarvars>>

\* swapData returns true and Run returns.
Return(p) ==
    /\ pc[p] = "swap_return"
    /\ Unwind(p, seg, "true", RunResult("true"))
    /\ UNCHANGED <<mutex, in_use, regions>>

\* The caller has taken the outcome; the process slot can start another Run.
Exit(p) ==
    /\ pc[p] = "done"
    /\ pc' = [pc EXCEPT ![p] = "idle"]
    /\ swap_ret' = [swap_ret EXCEPT ![p] = "none"]
    /\ result' = [result EXCEPT ![p] = "none"]
    /\ pre' = [pre EXCEPT ![p] = NoPre]
    /\ UNCHANGED <<sharedvars, rid, max_wait, dataset_name, config, handles, cursor,
                   old_handles, notified, histvars, readervars, cachevars, tarvars>>

\* The positions at which a publisher that dies leaves the monitor mutex free.
CrashPoints ==
    {"wait_lock", "locked", "static_layout", "static_setup", "static_data",
     "updatable_layout", "updatable_setup", "updatable_data", "swap_lock",
     "notify", "retire_remove", "retire_wait", "retire_release", "swap_return"}

\* The publisher process dies; the system releases its file lock and its
\* attachments.
Crash(p) ==
    /\ pc[p] \in CrashPoints
    /\ Unwind(p, seg, swap_ret[p], "crashed")
    /\ UNCHANGED <<mutex, in_use, regions>>

(***************************************************************************)
(* Readers: snapshot an entry under the monitor mutex, release it, attach. *)
(***************************************************************************)
ReaderLock(r) ==
    /\ rpc[r] = "idle"
    /\ monitor
    /\ MutexFree(mutex)
    /\ mutex' = r
    /\ \E name \in RegionNames : rname' = [rname EXCEPT ![r] = name]
    /\ rpc' = [rpc EXCEPT ![r] = "read_key"]
    /\ UNCHANGED <<file_lock, monitor, in_use, regions, seg, pubvars, histvars, cachevars, tarvars, snap, rseg, snap_seg>>

ReaderReadKey(r) ==
    /\ rpc[r] = "read_key"
    /\ LET region_id == Find(regions, rname[r]) IN
       IF region_id = INVALID_REGION_ID
       THEN /\ mutex' = NoProc
            /\ rpc' = [rpc EXCEPT ![r] = "idle"]
            /\ rname' = [rname EXCEPT ![r] = <<"none", "none">>]
            /\ UNCHANGED <<snap, snap_seg>>
       ELSE /\ snap' = [snap EXCEPT ![r].shm_key = regions[region_id].shm_key]
            /\ snap_seg' = [snap_seg EXCEPT ![r] =
                    IF RegionExists(seg, regions[region_id].shm_key)
                    THEN CHOOSE s \in LiveAt(seg, regions[region_id].shm_key) : TRUE
                    ELSE NoSegId]
            /\ rpc' = [rpc EXCEPT ![r] = "read_ts"]
            /\ UNCHANGED <<mutex, rname>>
    /\ UNCHANGED <<file_lock, monitor, in_use, regions, seg, pubvars, histvars, cachevars, tarvars, rseg>>

ReaderReadTimestamp(r) ==
    /\ rpc[r] = "read_ts"
    /\ LET region_id == Find(regions, rname[r]) IN
       snap' = [snap EXCEPT ![r].timestamp = regions[region_id].timestamp]
    /\ rpc' = [rpc EXCEPT ![r] = "snapped"]
    /\ UNCHANGED <<sharedvars, pubvars, histvars, cachevars, tarvars, rname, rseg, snap_seg>>

ReaderUnlock(r) ==
    /\ rpc[r] = "snapped"
    /\ mutex' = NoProc
    /\ rpc' = [rpc EXCEPT ![r] = "attach"]
    /\ UNCHANGED <<file_lock, monitor, in_use, regions, seg, pubvars, histvars, cachevars, tarvars, rname, snap, rseg, snap_seg>>

ReaderAttach(r) ==
    /\ rpc[r] = "attach"
    /\ IF RegionExists(seg, snap[r].shm_key)
       THEN /\ seg' = Attach(seg, snap[r].shm_key, r)
            /\ rseg' = [rseg EXCEPT ![r] = CHOOSE s \in LiveAt(seg, snap[r].shm_key) : TRUE]
            /\ rpc' = [rpc EXCEPT ![r] = "attached"]
            /\ UNCHANGED <<rname, snap, snap_seg>>
       ELSE /\ rpc' = [rpc EXCEPT ![r] = "idle"]
            /\ rname' = [rname EXCEPT ![r] = <<"none", "none">>]
            /\ snap' = [snap EXCEPT ![r] = NoSnap]
            /\ snap_seg' = [snap_seg EXCEPT ![r] = NoSegId]
            /\ UNCHANGED <<seg, rseg>>
    /\ UNCHANGED <<file_lock, mutex, monitor, in_use, regions, pubvars, histvars, cachevars, tarvars>>

ReaderDetach(r) ==
    /\ rpc[r] = "attached"
    /\ seg' = DetachAll(seg, r)
    /\ rpc' = [rpc EXCEPT ![r] = "idle"]
    /\ rname' = [rname EXCEPT ![r] = <<"none", "none">>]
    /\ snap' = [snap EXCEPT ![r] = NoSnap]
    /\ snap_seg' = [snap_seg EXCEPT ![r] = NoSegId]
    /\ rseg' = [rseg EXCEPT ![r] = NoSegId]
    /\ UNCHANGED <<file_lock, mutex, monitor, in_use, regions, pubvars, histvars, cachevars, tarvars>>

(***************************************************************************)
(* UnpackingCache: IsEdgeInCache, AddEdge and GetDuration, called by the   *)
(* worker threads of a reader process.                                     *)
(***************************************************************************)
CacheOps == {"IsEdgeInCache", "AddEdge", "GetDuration"}

\* A thread calls an operation.
CacheCall(t) ==
    /\ tpc[t] = "idle"
    /\ calls < MaxCalls
    /\ calls' = calls + 1
    /\ \E op \in CacheOps, edge \in CacheEdges, duration \in Durations :
          call' = [call EXCEPT ![t] =
                      [op |-> op, edge |-> edge,
                       duration |-> IF op = "AddEdge" THEN duration ELSE 0]]
    /\ tpc' = [tpc EXCEPT ![t] = "prepare"]
    /\ cache_ret' = [cache_ret EXCEPT ![t] = NoRet]
    /\ UNCHANGED <<impl, m_cache, m_shared_access, m_edge, m_new_gen, added, storagevars, tarvars>>

\* The statements before the lock is taken: the hashed version computes the
\* local hashed_edge; the generation version assigns the member m_edge.
CachePrepare(t) ==
    /\ tpc[t] = "prepare"
    /\ m_edge' = IF impl = "generation"
                 THEN GenerationKey(call[t].edge, m_new_gen)
                 ELSE m_edge
    /\ tpc' = [tpc EXCEPT ![t] = "lock"]
    /\ UNCHANGED <<impl, m_cache, m_shared_access, m_new_gen, call, cache_ret, calls, added,
                   storagevars, tarvars>>

\* unique_lock for AddEdge, shared_lock for IsEdgeInCache and GetDuration.
Exclusive(op) == op = "AddEdge"

CacheLock(t) ==
    /\ tpc[t] = "lock"
    /\ m_shared_access.exclusive = NoThread
    /\ IF Exclusive(call[t].op)
       THEN /\ m_shared_access.shared = {}
            /\ m_shared_access' = [m_shared_access EXCEPT !.exclusive = t]
       ELSE m_shared_access' = [m_shared_access EXCEPT !.shared = @ \cup {t}]
    /\ tpc' = [tpc EXCEPT ![t] = "locked"]
    /\ UNCHANGED <<impl, m_cache, m_edge, m_new_gen, call, cache_ret, calls, added, storagevars, tarvars>>

\* The key the operation of thread t looks up with.
LookupKey(t) == IF impl = "hashed" THEN HashedKeyOf[call[t].edge] ELSE m_edge

\* m_cache.contains / insert / get with the lock held, the return, and the
\* end of the scope of the lock.
CacheDo(t) ==
    /\ tpc[t] = "locked"
    /\ LET k == LookupKey(t)
           op == call[t].op
       IN  /\ m_cache' = CASE op = "AddEdge" -> lru_insert(m_cache, k, call[t].duration)
                           [] op = "GetDuration" -> lru_get(m_cache, k)
                           [] OTHER -> m_cache
           /\ cache_ret' = [cache_ret EXCEPT ![t] =
                  [op |-> op, edge |-> call[t].edge,
                   value |-> CASE op = "AddEdge" -> 0
                               [] op = "GetDuration" ->
                                     IF lru_contains(m_cache, k) THEN lru_value(m_cache, k)
                                     ELSE MAXIMAL_EDGE_DURATION
                               [] OTHER -> IF lru_contains(m_cache, k) THEN 1 ELSE 0]]
           /\ added' = IF op = "AddEdge"
                       THEN added \cup {<<call[t].edge, call[t].duration>>}
                       ELSE added
    /\ m_shared_access' = [exclusive |-> IF m_shared_access.exclusive = t THEN NoThread
                                         ELSE m_shared_access.exclusive,
                           shared |-> m_shared_access.shared \ {t}]
    /\ tpc' = [tpc EXCEPT ![t] = "idle"]
    /\ call' = [call EXCEPT ![t] = NoCall]
    /\ UNCHANGED <<impl, m_edge, m_new_gen, calls, storagevars, tarvars>>

(***************************************************************************)
(* readBlocks: the loop over the entries.                                  *)
(***************************************************************************)
\* const auto name_end = entry.name.rfind(".meta").
NameEnd(name) == rfind(name, Meta)

\* One pass of the loop body: SetBlock(entry.name, ...) when name_end is
\* npos.
ReadBlocksEntry ==
    /\ entry < Len(entries)
    /\ entry' = entry + 1
    /\ LET name == entries[entry + 1]
           name_end == NameEnd(name)
       IN  set_blocks' = IF name_end = npos THEN Append(set_blocks, name) ELSE set_blocks
    /\ UNCHANGED <<entries, storagevars, cachevars>>

(***************************************************************************)
(* The system.                                                             *)
(***************************************************************************)
Next ==
    \/ \E p \in Pubs : Run(p)
    \/ \E p \in Pubs : LockWait(p)
    \/ \E p \in Pubs : AttachMonitor(p)
    \/ \E p \in Pubs, r \in Regions : Layout(p, r)
    \/ \E p \in Pubs, r \in Regions : setupRegion(p, r)
    \/ \E p \in Pubs, r \in Regions : PopulateData(p, r)
    \/ \E p \in Pubs : SwapLock(p)
    \/ \E p \in Pubs : SwapTimeout(p)
    \/ \E p \in Pubs : SwapFind(p)
    \/ \E p \in Pubs : SwapKey(p)
    \/ \E p \in Pubs : SwapTimestamp(p)
    \/ \E p \in Pubs : SwapUnlock(p)
    \/ \E p \in Pubs : NotifyAll(p)
    \/ \E p \in Pubs : RetireRemove(p)
    \/ \E p \in Pubs : RetireWait(p)
    \/ \E p \in Pubs : RetireRelease(p)
    \/ \E p \in Pubs : Return(p)
    \/ \E p \in Pubs : Crash(p)
    \/ \E p \in Pubs : Exit(p)
    \/ \E r \in Readers : ReaderLock(r)
    \/ \E r \in Readers : ReaderReadKey(r)
    \/ \E r \in Readers : ReaderReadTimestamp(r)
    \/ \E r \in Readers : ReaderUnlock(r)
    \/ \E r \in Readers : ReaderAttach(r)
    \/ \E r \in Readers : ReaderDetach(r)

Spec == Init /\ [][Next]_vars

\* Scheduling: a process that can take its next step takes it; a publisher
\* blocked in lock() on the monitor mutex gets the mutex if it is free again
\* and again; every holder of the mutex lets go of it and every attached
\* reader detaches.  Nothing obliges a process to call Run, to give up at
\* the deadline or to die.
Fairness ==
    /\ \A p \in Pubs :
          /\ SF_vars(SwapLock(p))
          /\ WF_vars(SwapFind(p))
          /\ WF_vars(SwapKey(p))
          /\ WF_vars(SwapTimestamp(p))
          /\ WF_vars(SwapUnlock(p))
          /\ WF_vars(NotifyAll(p))
          /\ WF_vars(RetireRemove(p))
          /\ WF_vars(RetireWait(p))
          /\ WF_vars(RetireRelease(p))
          /\ WF_vars(Return(p))
    /\ \A r \in Readers :
          /\ WF_vars(ReaderReadKey(r))
          /\ WF_vars(ReaderReadTimestamp(r))
          /\ WF_vars(ReaderUnlock(r))
          /\ WF_vars(ReaderDetach(r))

LiveSpec == Init /\ [][Next]_vars /\ Fairness

\* The publishers alone, on the configurations of PlanConfigs.
PlanNext ==
    \/ \E p \in Pubs : Run(p)
    \/ \E p \in Pubs : LockWait(p)
    \/ \E p \in Pubs : AttachMonitorWith(p, PlanConfigs)
    \/ \E p \in Pubs, r \in Regions : Layout(p, r)
    \/ \E p \in Pubs, r \in Regions : setupRegion(p, r)
    \/ \E p \in Pubs, r \in Regions : PopulateData(p, r)
    \/ \E p \in Pubs : SwapLock(p)
    \/ \E p \in Pubs : SwapFind(p)
    \/ \E p \in Pubs : SwapKey(p)
    \/ \E p \in Pubs : SwapTimestamp(p)
    \/ \E p \in Pubs : SwapUnlock(p)
    \/ \E p \in Pubs : NotifyAll(p)
    \/ \E p \in Pubs : RetireRemove(p)
    \/ \E p \in Pubs : RetireWait(p)
    \/ \E p \in Pubs : RetireRelease(p)
    \/ \E p \in Pubs : Return(p)
    \/ \E p \in Pubs : Exit(p)

PlanSpec == Init /\ [][PlanNext]_vars

\* The cache alone, built from either version; in the generation version the
\* generation of newer timestamps is any of the two.
CacheInit ==
    /\ StorageInit
    /\ impl \in Impls
    /\ m_new_gen \in (IF impl = "generation" THEN Generations ELSE {m_old_gen})
    /\ CacheStart
    /\ TarIdle

CacheNext ==
    \/ \E t \in Threads : CacheCall(t)
    \/ \E t \in Threads : CachePrepare(t)
    \/ \E t \in Threads : CacheLock(t)
    \/ \E t \in Threads : CacheDo(t)

CacheSpec == CacheInit /\ [][CacheNext]_vars

\* The publishers and readers where the system may refuse an attachment.
FaultNext ==
    \/ Next
    \/ \E p \in Pubs : SwapAttachFails(p)

FaultSpec == Init /\ [][FaultNext]_vars

\* readBlocks alone, called on any list of entries.
TarInit ==
    /\ StorageInit
    /\ impl = "hashed"
    /\ m_new_gen = m_old_gen
    /\ CacheStart
    /\ entries \in EntryLists
    /\ entry = 0
    /\ set_blocks = <<>>

TarNext == ReadBlocksEntry

TarSpec == TarInit /\ [][TarNext]_vars

(***************************************************************************)
(* Properties.                                                             *)
(***************************************************************************)
\* A publisher between taking the writer file lock and leaving Run.
Working(p) == pc[p] \notin {"idle", "wait_lock", "done"}

\* The entry called name, looked up as Find does.
HasEntry(regs, name) == Find(regs, name) # INVALID_REGION_ID
EntryOf(regs, name) == regs[Find(regs, name)]

\* C1: at most one publisher is between acquiring the writer file lock and
\* returning, and a publisher holds the file lock at every position from
\* attaching the monitor to the retirement of the last old region.
C1_OnePublisher ==
    /\ \A p, q \in Pubs : Working(p) /\ Working(q) => p = q
    /\ \A p \in Pubs : Working(p) => file_lock = p

\* A publisher is inside the swap, holding the monitor mutex, while another
\* one has called Run and waits for the file lock.
C1_Witness ==
    \E p, q \in Pubs : pc[p] = "swap_unlock" /\ mutex = p /\ pc[q] = "wait_lock"

\* The entry a publisher has given its new key but not yet its new timestamp.
HalfUpdated(name) ==
    \E p \in Pubs : pc[p] = "swap_ts" /\ HandleName(p, cursor[p]) = name

\* C2: a process that reads an entry while it holds the monitor mutex sees
\* shm_key and timestamp of the same version: no entry is between the write
\* of its key and the increment of its timestamp while a reader holds the
\* mutex, and the pair a reader has read is the pair the entry holds.
C2_PairAtomic ==
    \A r \in Readers :
        /\ mutex = r => \A name \in RegionNames : ~HalfUpdated(name)
        /\ rpc[r] = "snapped" =>
              /\ HasEntry(regions, rname[r])
              /\ snap[r].shm_key = EntryOf(regions, rname[r]).shm_key
              /\ snap[r].timestamp = EntryOf(regions, rname[r]).timestamp

\* A reader has read the pair of an entry while a publisher of that dataset
\* waits for the mutex to swap the entry.
C2_Witness ==
    \E r \in Readers, p \in Pubs :
        /\ rpc[r] = "snapped"
        /\ mutex = r
        /\ pc[p] = "swap_lock"
        /\ dataset_name[p] = rname[r][1]

\* The timestamp of the entry called name; -1 while there is none.
TimestampOf(regs, name) ==
    IF HasEntry(regs, name) THEN EntryOf(regs, name).timestamp ELSE 0 - 1

C4_KeysDistinct ==
    \A i, j \in DOMAIN regions : regions[i].shm_key = regions[j].shm_key => i = j

\* Both datasets are registered, four entries, after all the Run calls.
C4_Witness == Len(regions) = 2 * Cardinality(Regions) /\ runs = MaxRuns

\* The old region a publisher is retiring.
OldSeg(p) == old_handles[p][cursor[p]]

C5_State ==
    /\ \A s \in SegIds : seg[s].att \cap Readers # {} => seg[s].key \in in_use
    /\ \A p \in Pubs :
          pc[p] \in {"retire_wait", "retire_release"} => seg[OldSeg(p)].state = "marked"
    /\ \A p \in Pubs : pc[p] = "retire_release" => seg[OldSeg(p)].att \subseteq {p}

C5_Step ==
    \A k \in Keys :
        (k \in in_use /\ k \notin in_use') =>
            /\ \E p \in Pubs : pc[p] = "retire_release" /\ seg[OldSeg(p)].key = k
            /\ \A s \in SegIds : seg[s].key = k => seg[s].att \cap Readers = {}

\* C5: an old region is removed, then waited for, then its key released:
\* a publisher waiting for or past the detach has marked the old segment,
\* one about to release the key is the only process attached, the key of a
\* segment a reader is attached to is in use, and a key leaves the in-use
\* set only in the release step of its retirement, no reader attached.
C5_RetireOrder == []C5_State /\ [][C5_Step]_vars

\* A publisher waits for the detach of an old segment it has marked, a
\* reader still attached to it.
C5_Witness ==
    \E p \in Pubs :
        /\ pc[p] = "retire_wait"
        /\ seg[OldSeg(p)].state = "marked"
        /\ seg[OldSeg(p)].att \cap Readers # {}

\* A segment the register points at, and a step that writes into a segment.
Registered(regs, sg, s) ==
    sg[s].state = "live" /\ \E i \in DOMAIN regs : regs[i].shm_key = sg[s].key
Written(s) == seg'[s].data # seg[s].data /\ seg'[s].data # "none"

\* C6: a step writes only into a segment of the Run call in progress, at the
\* positions where Run creates and fills it, before the swap; never into a segment that
\* the register points at, before or after the step, or that has been
\* marked for removal.
C6_WrittenBeforeRegistered ==
    [][\A s \in SegIds :
          Written(s) => /\ \E p \in Pubs : /\ s[1] = rid[p]
                                            /\ pc[p] \in {PcSetup[s[2]], PcData[s[2]]}
                        /\ ~Registered(regions, seg, s)
                        /\ ~Registered(regions', seg', s)
                        /\ seg[s].state # "marked"
                        /\ seg'[s].state # "marked"
      ]_vars

\* The static region of a new version has been filled while the register
\* holds an older version of the dataset and a reader is attached to it.
C6_Witness ==
    \E p \in Pubs, r \in Readers :
        /\ pc[p] = "updatable_layout"
        /\ seg[<<rid[p], "static">>].data = "populated"
        /\ HasEntry(regions, <<dataset_name[p], "static">>)
        /\ rpc[r] = "attached"
        /\ Registered(regions, seg, rseg[r])

\* A publish that has ended without success: swapData returned false, or
\* an exception left Run.
Failed(p) == pc[p] = "done" /\ (swap_ret[p] = "false" \/ result[p] = "exception")

\* C7: a Publish that times out at the monitor mutex reports a failure: the
\* result of Run is not EXIT_SUCCESS.
C7_TimeoutReported ==
    \A p \in Pubs : (pc[p] = "done" /\ swap_ret[p] = "false") => result[p] # EXIT_SUCCESS

C9_FailureRollsBack ==
    \A p \in Pubs :
        Failed(p) => /\ in_use = pre[p].in_use
                     /\ ExistingSegs(seg) = pre[p].segs

\* C10: once publishes of a dataset have returned success and no publisher
\* is at work on it, the register holds its static and its updatable entry,
\* both with the number of those publishes as timestamp.
C10_TimestampCountsPublishes ==
    \A d \in Datasets :
        (published[d] >= 1 /\ \A p \in Pubs : Working(p) => dataset_name[p] # d) =>
            \A r \in Regions :
                /\ HasEntry(regions, <<d, r>>)
                /\ EntryOf(regions, <<d, r>>).timestamp = published[d]

\* C11: when a publish of a dataset that was registered at its start
\* returns success, each entry of the dataset holds a key other than the
\* one it held before, the keys it held before are not in use, and as many
\* keys are in use as before the call.
C11_RepublishFreesKeys ==
    [][\A p \in Pubs :
          (pc[p] = "swap_return" /\ pc'[p] = "done") =>
              \A r \in Regions :
                  LET name == <<dataset_name[p], r>> IN
                  HasEntry(pre[p].regions, name) =>
                      /\ HasEntry(regions', name)
                      /\ EntryOf(regions', name).shm_key
                             # EntryOf(pre[p].regions, name).shm_key
                      /\ EntryOf(pre[p].regions, name).shm_key \notin in_use'
                      /\ Cardinality(in_use') = Cardinality(pre[p].in_use)
      ]_vars

\* A publish has returned success and a key that was registered at its
\* start is free again.
C11_Witness ==
    \E p \in Pubs :
        /\ pc[p] = "done"
        /\ swap_ret[p] = "true"
        /\ \E i \in DOMAIN pre[p].regions :
              /\ pre[p].regions[i].shm_key \notin in_use
              /\ pre[p].regions[i].shm_key # regions[i].shm_key

\* A publisher that waits for the detach of an old segment a reader is
\* attached to: it stays where it is unless the process dies, keeps the file
\* lock while it waits, the key stays in use, and a reader leaves the
\* segment only by its own detach.
C12_Blocked ==
    \A p \in Pubs :
        (pc[p] = "retire_wait" /\ seg[OldSeg(p)].att \cap Readers # {}) =>
            /\ pc'[p] \in {"retire_wait", "idle"}
            /\ pc'[p] = "retire_wait" => file_lock' = p
            /\ seg[OldSeg(p)].key \in in_use'
            /\ \A r \in Readers :
                  (r \in seg[OldSeg(p)].att /\ r \notin seg'[OldSeg(p)].att)
                      => (rpc[r] = "attached" /\ rpc'[r] = "idle")

\* C12: with every holder of the monitor mutex releasing it and every
\* attached reader detaching, a publisher that has reached the swap leaves
\* Run and no longer holds the file lock; and as long as a reader is
\* attached to the old segment the publisher waits for, the publisher
\* stays in the wait, with the file lock and the key, and detaches nobody.
C12_RetireTerminates ==
    /\ \A p \in Pubs : (pc[p] = "swap_lock") ~> (file_lock # p)
    /\ [][C12_Blocked]_vars

\* A publisher waits for the detach of the second old region, a reader
\* attached to it.
C12_Witness ==
    \E p \in Pubs :
        /\ pc[p] = "retire_wait"
        /\ cursor[p] = Len(HandleOrder)
        /\ seg[OldSeg(p)].att \cap Readers # {}

\* C13: once a publish has returned success, a key that a publisher had
\* reserved when it died between setupRegion and the monitor mutex is free
\* or registered again, and no unregistered segment is left at it.
C13_AbandonedKeyReclaimed ==
    \A p \in Pubs :
        (pc[p] = "done" /\ swap_ret[p] = "true") =>
            \A k \in abandoned :
                /\ k \in in_use => k \in RegisteredKeys
                /\ RegionExists(seg, k) => k \in RegisteredKeys

\* C14: swapData returns false only from the acquisition of the monitor
\* mutex, with max_wait >= 0 and the mutex held by another process; a
\* publisher with a negative max_wait stays at the acquisition until it
\* owns the mutex and enters the swap loop; and whatever max_wait is, the
\* waits for the file lock and for the detach end only by being granted.
C14_NegativeWaitsForever ==
    [][\A p \in Pubs :
          /\ (swap_ret'[p] = "false" /\ swap_ret[p] # "false") =>
                (pc[p] = "swap_lock" /\ max_wait[p] >= 0 /\ mutex \notin {NoProc, p})
          /\ (pc[p] = "swap_lock" /\ max_wait[p] < 0) =>
                /\ pc'[p] \in {"swap_lock", "swap_find", "idle"}
                /\ pc'[p] = "swap_find" => (mutex = NoProc /\ mutex' = p)
          /\ pc[p] = "wait_lock" => pc'[p] \in {"wait_lock", "locked", "idle"}
          /\ pc[p] = "retire_wait" => pc'[p] \in {"retire_wait", "retire_release", "idle"}
      ]_vars

\* A publisher with a negative max_wait is at the acquisition while a
\* reader holds the monitor mutex.
C14_Witness ==
    \E p \in Pubs :
        /\ pc[p] = "swap_lock"
        /\ max_wait[p] < 0
        /\ mutex \in Readers

\* The artifacts a region's table of files marks REQUIRED.
RequiredOf ==
    [static |-> {StaticTarFiles[i][2] :
                    i \in {j \in DOMAIN StaticTarFiles : StaticTarFiles[j][1] = REQUIRED}},
     updatable |-> {UpdatableTarFiles[i][2] :
                    i \in {j \in DOMAIN UpdatableTarFiles : UpdatableTarFiles[j][1] = REQUIRED}}]

\* The positions of Run after the layout of region r has been planned.
PastLayout ==
    [static |-> {"static_setup", "static_data", "updatable_layout", "updatable_setup",
                 "updatable_data", "swap_lock"},
     updatable |-> {"updatable_setup", "updatable_data", "swap_lock"}]

\* An exception leaves Run in this step.
Throws(p) == result'[p] = "exception" /\ result[p] # "exception"

\* C15: with a REQUIRED artifact of a region absent, Run fails in the layout
\* planning of that region and never gets to reserving the region's key;
\* with every REQUIRED artifact present and the checksums equal, neither
\* planning nor populating fails, whichever OPTIONAL artifacts are absent.
C15_MissingRequiredAtPlanning ==
    [][\A p \in Pubs :
          /\ \A r \in Regions :
                (config[p] # NoConfig /\ RequiredOf[r] \ config[p].present # {}) =>
                    /\ pc[p] \notin PastLayout[r]
                    /\ Throws(p) => \E q \in Regions :
                                        /\ pc[p] = PcLayout[q]
                                        /\ RequiredOf[q] \ config[p].present # {}
          /\ ( /\ config[p] # NoConfig
               /\ \A r \in Regions : RequiredOf[r] \subseteq config[p].present
               /\ ~PopulateStaticDataChecksumThrows(config[p]) )
                => ~(Throws(p) /\ pc[p] \in {PcLayout[r] : r \in Regions}
                                              \cup {PcData[r] : r \in Regions})
      ]_vars

\* C16: in each populate routine, for a configuration with every REQUIRED
\* artifact present, the checksum test aborts exactly when hsgr or mldgr is
\* present with a checksum other than the one stored in edges.
C16_ChecksumAgainstEdges ==
    \A p \in Pubs :
        (config[p] # NoConfig /\ \A r \in Regions : RequiredOf[r] \subseteq config[p].present) =>
            LET cfg == config[p]
                differs == \/ "hsgr" \in cfg.present /\ cfg.hsgr # cfg.edges
                           \/ "mldgr" \in cfg.present /\ cfg.mldgr # cfg.edges
            IN  /\ PopulateStaticDataChecksumThrows(cfg) <=> differs
                /\ PopulateUpdatableDataChecksumThrows(cfg) <=> differs

\* C19: a step a publisher takes while it holds the monitor mutex leaves
\* the data segments alone: nothing is created, attached, removed or
\* waited for, and the step does not end in an exception.
C19_CriticalSectionRegisterOnly ==
    [][\A p \in Pubs :
          (mutex = p /\ <<pc[p], cursor[p]>>' # <<pc[p], cursor[p]>>) =>
              /\ seg' = seg
              /\ ~Throws(p)
      ]_vars

\* The positions of swapData up to the end of the scope of the lock, and
\* those of the loop over old_handles and the return.
UpToUnlock == {"swap_lock", "swap_find", "swap_key", "swap_ts", "swap_unlock"}
AfterNotify == {"retire_remove", "retire_wait", "retire_release", "swap_return"}

C20_State ==
    \A p \in Pubs :
        /\ pc[p] \in UpToUnlock => notified[p] = 0
        /\ pc[p] = "notify" =>
              /\ notified[p] = 0
              /\ mutex # p
              /\ \A i \in DOMAIN HandleOrder :
                    /\ HasEntry(regions, HandleName(p, i))
                    /\ EntryOf(regions, HandleName(p, i)).shm_key = NewKey(p, i)
        /\ pc[p] \in AfterNotify => (notified[p] = 1 /\ mutex # p)

C20_Step ==
    \A p \in Pubs :
        /\ notified'[p] > notified[p] => (pc[p] = "notify" /\ mutex # p)
        /\ \A i \in DOMAIN old_handles[p] :
              (seg[old_handles[p][i]].state = "live"
                    /\ seg'[old_handles[p][i]].state # "live")
                  => (pc[p] = "retire_remove" /\ notified[p] = 1)
        /\ (swap_ret'[p] = "false" /\ swap_ret[p] # "false") => notified[p] = 0

\* C20: in a swap the entries of the publish are all updated when the mutex
\* has been released; notify_all is issued then, once, without the mutex;
\* an old region is marked for removal only after it; and a swap that times
\* out has issued no notify_all.
C20_SwapOrder == []C20_State /\ [][C20_Step]_vars

\* A publisher has issued notify_all and is about to mark an old region.
C20_Witness ==
    \E p \in Pubs :
        /\ pc[p] = "retire_remove"
        /\ notified[p] = 1
        /\ seg[OldSeg(p)].state = "live"

\* A lookup of thread t that has completed with a hit: GetDuration that
\* returned a duration other than the sentinel, or IsEdgeInCache that
\* returned true.
Hit(t) ==
    \/ cache_ret[t].op = "GetDuration" /\ cache_ret[t].value # MAXIMAL_EDGE_DURATION
    \/ cache_ret[t].op = "IsEdgeInCache" /\ cache_ret[t].value = 1

\* C17: GetDuration(k) returns a stored duration d only if an earlier
\* AddEdge(k', d) had k' equal to k in all four components (source, target,
\* exclude class, timestamp), and IsEdgeInCache(k) is true only if such an
\* AddEdge has been made; so after AddEdge((u,v,x,7), d1) a lookup of
\* (u,v,x,8) returns the sentinel MAXIMAL_EDGE_DURATION and false.
C17_ExactKeyOnly ==
    \A t \in Threads :
        Hit(t) =>
            \E a \in added :
                /\ a[1] = cache_ret[t].edge
                /\ cache_ret[t].op = "GetDuration" => a[2] = cache_ret[t].value

\* The thread that takes the step.
Acts(t) == tpc'[t] # tpc[t]

\* The mode a thread holds m_shared_access in while it is in the scope of
\* its lock.
LockModes ==
    /\ m_shared_access.exclusive # NoThread => m_shared_access.shared = {}
    /\ \A t \in Threads :
          tpc[t] = "locked" =>
              IF call[t].op = "AddEdge"
              THEN m_shared_access.exclusive = t
              ELSE t \in m_shared_access.shared

\* A step that writes a member of the cache object is taken by the thread
\* that holds the lock exclusively, with no other thread holding it.
WritesLocked ==
    (m_cache' # m_cache \/ m_edge' # m_edge) =>
        \E t \in Threads :
            /\ Acts(t)
            /\ m_shared_access.exclusive = t
            /\ m_shared_access.shared = {}

\* C18: in any interleaving of AddEdge, GetDuration and IsEdgeInCache, the
\* thread in AddEdge's modification holds the lock exclusively, the threads
\* in GetDuration and IsEdgeInCache hold it in shared mode, and no member of
\* the cache object is written by a thread that does not hold the lock
\* exclusively.
C18_WritesUnderExclusiveLock == []LockModes /\ [][WritesLocked]_vars

\* The blocks a layout planned from a list of tar files can hold.
BlocksOf(tar_files) == {tar_files[i][2] : i \in DOMAIN tar_files}
OwnBlocks ==
    [static |-> BlocksOf(StaticTarFiles) \cup {"file_index_path"},
     updatable |-> BlocksOf(UpdatableTarFiles)]

\* C21: the two regions of a dataset are planned and populated
\* independently: the segment registered as <dataset>/updatable is laid out
\* from the updatable artifact set and the segment registered as
\* <dataset>/static from the static artifact set; the updatable region is
\* never built from the static layout.
C21_RegionsFromOwnLayout ==
    \A i \in DOMAIN regions :
        \A s \in LiveAt(seg, regions[i].shm_key) :
            seg[s].layout \subseteq OwnBlocks[regions[i].name[2]]

\* Whether a name ends with a suffix.
EndsWith(s, suffix) ==
    /\ Len(suffix) <= Len(s)
    /\ SubSeq(s, Len(s) - Len(suffix) + 1, Len(s)) = suffix

\* C22: readBlocks adds a block for an entry if and only if the name of the
\* entry does not end with ".meta": once the loop is through, the blocks
\* set are, in order, exactly the entries whose name does not end with
\* ".meta", one block each under the entry's own name, an entry whose name
\* has ".meta" in the middle included.
C22_MetaSuffixSkipped ==
    entry = Len(entries) =>
        set_blocks = SelectSeq(entries, LAMBDA name : ~EndsWith(name, Meta))

\* C23: a reader that snapshots an entry's (shm_key, timestamp) under the
\* monitor mutex, releases the mutex and only then attaches, attaches to
\* the segment that was registered under that key at snapshot time: in
\* every interleaving with a concurrent publish the attach finds the
\* segment (it has not been destroyed) and the segment found is that one
\* (the key has not been reused for a newer segment).
C23_AttachesSnapshotSegment ==
    [][\A r \in Readers :
          (rpc[r] = "attach" /\ rpc'[r] # "attach") =>
              /\ rpc'[r] = "attached"
              /\ rseg'[r] = snap_seg[r]
      ]_vars

\* The Run call that created the live segment at a key (0 when there is
\* none).
RunOf(sg, key) ==
    IF RegionExists(sg, key) THEN (CHOOSE s \in LiveAt(sg, key) : TRUE)[1] ELSE 0

\* C24: the entries <dataset>/static and <dataset>/updatable are switched
\* together: in every state observable under the monitor mutex (no
\* publisher holds it) either both entries exist or neither, both have the
\* same timestamp, and both keys come from the same Run call, a failure
\* inside the swap loop at the second entry included.
C24_PairSwitchedTogether ==
    (mutex \notin Pubs) =>
        \A d \in Datasets :
            /\ HasEntry(regions, <<d, "static">>) <=> HasEntry(regions, <<d, "updatable">>)
            /\ HasEntry(regions, <<d, "static">>) =>
                  /\ EntryOf(regions, <<d, "static">>).timestamp
                        = EntryOf(regions, <<d, "updatable">>).timestamp
                  /\ RunOf(seg, EntryOf(regions, <<d, "static">>).shm_key)
                        = RunOf(seg, EntryOf(regions, <<d, "updatable">>).shm_key)

\* A step that applies SharedMemory::Remove to a segment.
Removed(s) == seg[s].state = "live" /\ seg'[s].state # "live"

\* Every key in a register entry is marked in use and names a segment that
\* exists and is not marked for removal.
C25_State ==
    \A i \in DOMAIN regions :
        /\ regions[i].shm_key \in in_use
        /\ RegionExists(seg, regions[i].shm_key)

\* Remove is applied only to a segment the register does not point at.
C25_Step ==
    \A s \in SegIds : Removed(s) => ~Registered(regions, seg, s)

\* C25: in every reachable state each key stored in a register entry is
\* marked in use in the key allocator and names a segment that exists and
\* has not been marked for removal; Remove is applied to a key only after
\* the register has stopped pointing at it, or to a key that never was
\* registered.
C25_RegisteredKeysLive == []C25_State /\ [][C25_Step]_vars

\* A publisher has removed the segment its swap replaced and is about to
\* release its key, while the entry points at the new segment, which is
\* live and whose key is in use.
C25_Witness ==
    \E p \in Pubs :
        /\ pc[p] = "retire_release"
        /\ seg[OldSeg(p)].state # "live"
        /\ seg[OldSeg(p)].key \in in_use
        /\ HasEntry(regions, <<dataset_name[p], OldSeg(p)[2]>>)
        /\ RegionExists(seg, EntryOf(regions, <<dataset_name[p], OldSeg(p)[2]>>).shm_key)

\* The keys the entries of a register refer to.
KeysOf(regs) == {regs[i].shm_key : i \in DOMAIN regs}

\* C26: when no publisher is running the in-use keys are exactly the keys
\* the register entries refer to, after any sequence of successful,
\* timed-out or failed publishes: a publish that began with no key in use
\* beyond the registered ones and has ended, in success, on the timeout or
\* on an error, leaves no key in use beyond the registered ones.
C26_NoKeyLeak ==
    \A p \in Pubs :
        (pc[p] = "done" /\ pre[p].in_use = KeysOf(pre[p].regions)) =>
            in_use = KeysOf(regions)

\* The key that belongs to the call of thread t: its edge hashed, or its
\* edge with the generation of its timestamp.
OwnKey(t) ==
    IF impl = "hashed" THEN HashedKeyOf[call[t].edge]
    ELSE GenerationKey(call[t].edge, m_new_gen)

\* C27: when threads call GetDuration, IsEdgeInCache or AddEdge
\* concurrently with different keys, each call looks up or inserts under
\* the key of that call: the key a thread uses inside the scope of its lock
\* is never one another thread has written.
C27_OwnKeyInLockedSection ==
    \A t \in Threads : tpc[t] = "locked" => LookupKey(t) = OwnKey(t)

=============================================================================
